---- MODULE Spec2Model ----
(***************************************************************************)
(* Product CRUD service: HTTP handlers (ControllerProduct) over the MySQL  *)
(* storage implementation (ImplStorageProductMySQL).                       *)
(*                                                                         *)
(* The products table is a function from the ids of the live rows to rows  *)
(* of nullable columns.  Every request is one action; the Update handler,  *)
(* which makes two storage calls, is also available as two steps so that   *)
(* two requests can interleave between its calls.                          *)
(***************************************************************************)
EXTENDS Integers, Sequences, FiniteSets, TLC

VARIABLES
    rows,             \* the products table: live id -> row of nullable columns
    lastID,           \* the table's AUTO_INCREMENT counter
    clientFoundRows,  \* how the connection held by the storage counts updated rows
    pend,             \* per client, the Update request between its two storage calls
    resp              \* the last request answered, with its response

vars == <<rows, lastID, clientFoundRows, pend, resp>>

\* Bound on the AUTO_INCREMENT counter: Store requests stop once it is reached.
MaxID == 2

(***************************************************************************)
(* Go values.  A Go int is 64 bits wide; it is kept as its two 32-bit      *)
(* halves, each held as a signed 32-bit number, so that the int32          *)
(* conversion of the storage layer is exactly "keep the low half".         *)
(***************************************************************************)
MaxInt32 == 2147483647
MinInt32 == (-MaxInt32) - 1

\* A Go int whose value fits in 32 bits (sign extension of n).
Small(n) == [hi |-> IF n < 0 THEN -1 ELSE 0, lo |-> n]

\* The Go int 2^31 = 0x0000000080000000: the low half has only its top bit set.
TwoTo31 == [hi |-> 0, lo |-> MinInt32]

\* int32(c)
ToInt32(c) == c.lo

\* int(v) for an int32 v
FromInt32(v) == Small(v)

ErrNil == "nil"
ErrStorageProductInternal == "internal storage product error"
ErrStorageProductNotFound == "storage product not found"
ErrStorageProductNotUnique == "storage product not unique"

StatusOK == 200
StatusCreated == 201
StatusBadRequest == 400
StatusNotFound == 404
StatusInternalServerError == 500

\* storage.Product
Product(id, name, type, count, price) ==
    [ID |-> id, Name |-> name, Type |-> type, Count |-> count, Price |-> price]

\* new(Product): every field at its zero value
ZeroProduct == Product(0, "", "", Small(0), 0)

(***************************************************************************)
(* Column conversions of the storage layer.                                *)
(***************************************************************************)
\* sql.NullString / sql.NullInt32 / sql.NullFloat64; the zero struct is NULL
NullString == [Valid |-> FALSE, String |-> ""]
NullInt32 == [Valid |-> FALSE, Int32 |-> 0]
NullFloat64 == [Valid |-> FALSE, Float64 |-> 0]

\* "deserialize" of Store and Update: a field is written only when it is not
\* the zero value of its type; Count goes through int32.
ToProductMySQL(p) ==
    [Name  |-> IF p.Name # "" THEN [Valid |-> TRUE, String |-> p.Name] ELSE NullString,
     Type  |-> IF p.Type # "" THEN [Valid |-> TRUE, String |-> p.Type] ELSE NullString,
     Count |-> IF p.Count # Small(0)
               THEN [Valid |-> TRUE, Int32 |-> ToInt32(p.Count)] ELSE NullInt32,
     Price |-> IF p.Price # 0 THEN [Valid |-> TRUE, Float64 |-> p.Price] ELSE NullFloat64]

\* "serialization" of GetOne: NULL columns stay at the zero value; ID is not set.
FromProductMySQL(r) ==
    [ZeroProduct EXCEPT
       !.Name  = IF r.Name.Valid THEN r.Name.String ELSE @,
       !.Type  = IF r.Type.Valid THEN r.Type.String ELSE @,
       !.Count = IF r.Count.Valid THEN FromInt32(r.Count.Int32) ELSE @,
       !.Price = IF r.Price.Valid THEN r.Price.Float64 ELSE @]

(***************************************************************************)
(* The products table: name is a UNIQUE nullable column, so a NULL name    *)
(* never collides.                                                         *)
(***************************************************************************)
DuplicateName(tbl, id, name) ==
    /\ name.Valid
    /\ \E i \in DOMAIN tbl \ {id} : tbl[i].Name.Valid /\ tbl[i].Name.String = name.String

\* The table without row id
Without(tbl, id) == [i \in DOMAIN tbl \ {id} |-> tbl[i]]

\* The table with row id set to r
With(tbl, id, r) == [i \in DOMAIN tbl \cup {id} |-> IF i = id THEN r ELSE tbl[i]]

(***************************************************************************)
(* ImplStorageProductMySQL.  Each operation takes the table and a fault    *)
(* input (the statement cannot be prepared or executed) and returns the    *)
(* error it reports together with what it leaves behind.                   *)
(***************************************************************************)
\* GetOne: row.Err() carries only the query's own failure; a missing row is
\* reported by Scan as sql.ErrNoRows, which falls in the Scan error branch.
StorageGetOne(tbl, id, fault) ==
    IF fault
    THEN [err |-> ErrStorageProductInternal, p |-> <<>>]
    ELSE IF id \notin DOMAIN tbl
         THEN [err |-> ErrStorageProductInternal, p |-> <<>>]
         ELSE [err |-> ErrNil, p |-> <<FromProductMySQL(tbl[id])>>]

\* Store: INSERT; MySQL error 1062 is NotUnique; sets p.ID to the insert id.
StorageStore(tbl, lid, p, fault) ==
    LET product == ToProductMySQL(p) IN
    IF fault
    THEN [err |-> ErrStorageProductInternal, p |-> p, rows |-> tbl, lastID |-> lid]
    ELSE IF DuplicateName(tbl, 0, product.Name)
         THEN [err |-> ErrStorageProductNotUnique, p |-> p, rows |-> tbl, lastID |-> lid]
         ELSE [err |-> ErrNil, p |-> [p EXCEPT !.ID = lid + 1],
               rows |-> With(tbl, lid + 1, product), lastID |-> lid + 1]

\* RowsAffected of an UPDATE that matched row id: the rows changed, or the rows
\* matched when the connection was opened with clientFoundRows.
UpdateRowsAffected(tbl, cfr, id, product) ==
    IF id \notin DOMAIN tbl THEN 0
    ELSE IF cfr \/ tbl[id] # product THEN 1 ELSE 0

\* Update: UPDATE ... WHERE id = ?; every Exec error, the duplicate key one
\* included, is Internal, and so is a row count other than one.
StorageUpdate(tbl, cfr, p, fault) ==
    LET product == ToProductMySQL(p) IN
    IF fault
    THEN [err |-> ErrStorageProductInternal, rows |-> tbl]
    ELSE IF p.ID \in DOMAIN tbl /\ DuplicateName(tbl, p.ID, product.Name)
         THEN [err |-> ErrStorageProductInternal, rows |-> tbl]
         ELSE IF UpdateRowsAffected(tbl, cfr, p.ID, product) # 1
              THEN [err |-> ErrStorageProductInternal, rows |-> tbl]
              ELSE [err |-> ErrNil, rows |-> With(tbl, p.ID, product)]

\* Delete: DELETE ... WHERE id = ?; a row count other than one is Internal.
StorageDelete(tbl, id, fault) ==
    IF fault
    THEN [err |-> ErrStorageProductInternal, rows |-> tbl]
    ELSE IF (IF id \in DOMAIN tbl THEN 1 ELSE 0) # 1
         THEN [err |-> ErrStorageProductInternal, rows |-> tbl]
         ELSE [err |-> ErrNil, rows |-> Without(tbl, id)]

(***************************************************************************)
(* Request parsing.  A path parameter is a sequence of characters, the     *)
(* empty one standing for a missing last segment.  A JSON body is either   *)
(* malformed or gives each of the four fields at most once; a field is a   *)
(* sequence of length 0 (omitted) or 1.                                    *)
(***************************************************************************)
PathLastParam(path) == [err |-> path = <<>>, param |-> path]

DigitChars == <<"0", "1", "2", "3", "4", "5", "6", "7", "8", "9">>

IsDigit(c) == \E i \in 1..Len(DigitChars) : DigitChars[i] = c

DigitVal(c) == (CHOOSE i \in 1..Len(DigitChars) : DigitChars[i] = c) - 1

RECURSIVE ParseDigits(_)
ParseDigits(s) ==
    IF s = <<>> THEN 0
    ELSE 10 * ParseDigits(SubSeq(s, 1, Len(s) - 1)) + DigitVal(s[Len(s)])

\* strconv.Atoi: an optional sign, then one or more decimal digits
Atoi(s) ==
    LET signed == s # <<>> /\ s[1] \in {"+", "-"}
        ds == IF signed THEN Tail(s) ELSE s
    IN  IF ds = <<>> \/ \E i \in 1..Len(ds) : ~IsDigit(ds[i])
        THEN [err |-> TRUE, n |-> 0]
        ELSE [err |-> FALSE,
              n |-> IF signed /\ s[1] = "-" THEN -ParseDigits(ds) ELSE ParseDigits(ds)]

\* request.JSON(r, target): decodes the body over target; omitted fields keep
\* the target's value.
RequestJSON(body, target) ==
    IF ~body.ok
    THEN [err |-> TRUE, v |-> target]
    ELSE [err |-> FALSE,
          v |-> [Name  |-> IF body.name # <<>> THEN body.name[1] ELSE target.Name,
                 Type  |-> IF body.type # <<>> THEN body.type[1] ELSE target.Type,
                 Count |-> IF body.count # <<>> THEN body.count[1] ELSE target.Count,
                 Price |-> IF body.price # <<>> THEN body.price[1] ELSE target.Price]]

\* The four fields of a request or response struct
Fields(p) == [Name |-> p.Name, Type |-> p.Type, Count |-> p.Count, Price |-> p.Price]

\* var req RequestProductStore
ZeroFields == Fields(ZeroProduct)

\* The ResponseBody envelope, with the storage calls the handler made and the
\* faults they met.
Response(code, message, data, calls, faults) ==
    [code |-> code, message |-> message, data |-> data, error |-> code >= 400,
     calls |-> calls, faults |-> faults]

(***************************************************************************)
(* ControllerProduct.  A handler returns its response; the handlers that   *)
(* write also return the table they leave.                                 *)
(***************************************************************************)
HandlerGetOne(tbl, path, fault) ==
    LET lp == PathLastParam(path)
        a == Atoi(lp.param)
        g == StorageGetOne(tbl, a.n, fault)
    IN  IF lp.err
        THEN Response(StatusBadRequest, "invalid path param", <<>>, <<>>, <<>>)
        ELSE IF a.err
        THEN Response(StatusBadRequest, "parameter must be int", <<>>, <<>>, <<>>)
        ELSE IF g.err # ErrNil
        THEN IF g.err = ErrStorageProductNotFound
             THEN Response(StatusNotFound, "product not found", <<>>, <<"GetOne">>, <<fault>>)
             ELSE Response(StatusInternalServerError, "internal error", <<>>,
                           <<"GetOne">>, <<fault>>)
        ELSE Response(StatusOK, "success", <<Fields(g.p[1])>>, <<"GetOne">>, <<fault>>)

\* ResponseProductStore has the four fields and no identifier.
HandlerStore(tbl, lid, body, fault) ==
    LET j == RequestJSON(body, ZeroFields)
        product == Product(0, j.v.Name, j.v.Type, j.v.Count, j.v.Price)
        st == StorageStore(tbl, lid, product, fault)
    IN  IF j.err
        THEN [resp |-> Response(StatusBadRequest, "invalid json", <<>>, <<>>, <<>>),
              rows |-> tbl, lastID |-> lid, id |-> 0]
        ELSE IF st.err # ErrNil
        THEN [resp |-> IF st.err = ErrStorageProductNotUnique
                       THEN Response(StatusBadRequest, "product not unique", <<>>,
                                     <<"Store">>, <<fault>>)
                       ELSE Response(StatusInternalServerError, "internal error", <<>>,
                                     <<"Store">>, <<fault>>),
              rows |-> st.rows, lastID |-> st.lastID, id |-> st.p.ID]
        ELSE [resp |-> Response(StatusCreated, "success", <<Fields(st.p)>>,
                                <<"Store">>, <<fault>>),
              rows |-> st.rows, lastID |-> st.lastID, id |-> st.p.ID]

\* Update, up to and including the fetch of the current record: either the
\* response is already decided (done) or the record pr is in hand.
UpdateRead(tbl, path, fault) ==
    LET lp == PathLastParam(path)
        a == Atoi(lp.param)
        g == StorageGetOne(tbl, a.n, fault)
    IN  IF lp.err
        THEN [done |-> TRUE, id |-> 0, pr |-> ZeroFields,
              resp |-> Response(StatusBadRequest, "invalid path param", <<>>, <<>>, <<>>)]
        ELSE IF a.err
        THEN [done |-> TRUE, id |-> 0, pr |-> ZeroFields,
              resp |-> Response(StatusBadRequest, "parameter must be int", <<>>, <<>>, <<>>)]
        ELSE IF g.err # ErrNil
        THEN [done |-> TRUE, id |-> a.n, pr |-> ZeroFields,
              resp |-> IF g.err = ErrStorageProductNotFound
                       THEN Response(StatusNotFound, "product not found", <<>>,
                                     <<"GetOne">>, <<fault>>)
                       ELSE Response(StatusInternalServerError, "internal error", <<>>,
                                     <<"GetOne">>, <<fault>>)]
        ELSE [done |-> FALSE, id |-> a.n, pr |-> Fields(g.p[1]),
              resp |-> Response(StatusOK, "", <<>>, <<"GetOne">>, <<fault>>)]

\* UpdateWrite as it would be if the decoding error were not checked
UpdateWriteUnchecked(tbl, cfr, id, pr, body, fault) ==
    LET j == RequestJSON(body, pr)
        prUpdate == Product(id, j.v.Name, j.v.Type, j.v.Count, j.v.Price)
        u == StorageUpdate(tbl, cfr, prUpdate, fault)
    IN  IF FALSE
        THEN [resp |-> Response(StatusBadRequest, "invalid json", <<>>, <<>>, <<>>),
              rows |-> tbl]
        ELSE IF u.err # ErrNil
        THEN [resp |-> IF u.err = ErrStorageProductNotFound
                       THEN Response(StatusNotFound, "product not found", <<>>,
                                     <<"Update">>, <<fault>>)
                       ELSE IF u.err = ErrStorageProductNotUnique
                       THEN Response(StatusBadRequest, "product not unique", <<>>,
                                     <<"Update">>, <<fault>>)
                       ELSE Response(StatusInternalServerError, "internal error", <<>>,
                                     <<"Update">>, <<fault>>),
              rows |-> u.rows]
        ELSE [resp |-> Response(StatusOK, "success", <<Fields(prUpdate)>>,
                                <<"Update">>, <<fault>>),
              rows |-> u.rows]

\* UpdateWrite as it would be if the body were decoded over the row as it is
\* at the time of the write
UpdateWriteOverCurrent(tbl, cfr, id, pr, body, fault) ==
    LET j == RequestJSON(body, IF id \in DOMAIN tbl
                               THEN Fields(FromProductMySQL(tbl[id])) ELSE pr)
        prUpdate == Product(id, j.v.Name, j.v.Type, j.v.Count, j.v.Price)
        u == StorageUpdate(tbl, cfr, prUpdate, fault)
    IN  IF j.err
        THEN [resp |-> Response(StatusBadRequest, "invalid json", <<>>, <<>>, <<>>),
              rows |-> tbl]
        ELSE IF u.err # ErrNil
        THEN [resp |-> IF u.err = ErrStorageProductNotFound
                       THEN Response(StatusNotFound, "product not found", <<>>,
                                     <<"Update">>, <<fault>>)
                       ELSE IF u.err = ErrStorageProductNotUnique
                       THEN Response(StatusBadRequest, "product not unique", <<>>,
                                     <<"Update">>, <<fault>>)
                       ELSE Response(StatusInternalServerError, "internal error", <<>>,
                                     <<"Update">>, <<fault>>),
              rows |-> u.rows]
        ELSE [resp |-> Response(StatusOK, "success", <<Fields(prUpdate)>>,
                                <<"Update">>, <<fault>>),
              rows |-> u.rows]

\* Update, from the decoding of the body over the fetched record pr onwards.
UpdateWrite(tbl, cfr, id, pr, body, fault) ==
    LET j == RequestJSON(body, pr)
        prUpdate == Product(id, j.v.Name, j.v.Type, j.v.Count, j.v.Price)
        u == StorageUpdate(tbl, cfr, prUpdate, fault)
    IN  IF j.err
        THEN [resp |-> Response(StatusBadRequest, "invalid json", <<>>, <<>>, <<>>),
              rows |-> tbl]
        ELSE IF u.err # ErrNil
        THEN [resp |-> IF u.err = ErrStorageProductNotFound
                       THEN Response(StatusNotFound, "product not found", <<>>,
                                     <<"Update">>, <<fault>>)
                       ELSE IF u.err = ErrStorageProductNotUnique
                       THEN Response(StatusBadRequest, "product not unique", <<>>,
                                     <<"Update">>, <<fault>>)
                       ELSE Response(StatusInternalServerError, "internal error", <<>>,
                                     <<"Update">>, <<fault>>),
              rows |-> u.rows]
        ELSE [resp |-> Response(StatusOK, "success", <<Fields(prUpdate)>>,
                                <<"Update">>, <<fault>>),
              rows |-> u.rows]

\* The response of a whole Update request: the calls of both parts
UpdateResponse(r, w) ==
    [w.resp EXCEPT !.calls = r.resp.calls \o @, !.faults = r.resp.faults \o @]

\* HandlerDelete as it would be if the result of Atoi were not checked
HandlerDeleteUnchecked(tbl, path, fault) ==
    LET lp == PathLastParam(path)
        a == Atoi(lp.param)
        d == StorageDelete(tbl, a.n, fault)
    IN  IF lp.err
        THEN [resp |-> Response(StatusBadRequest, "invalid path param", <<>>, <<>>, <<>>),
              rows |-> tbl]
        ELSE IF FALSE
        THEN [resp |-> Response(StatusBadRequest, "parameter must be int", <<>>, <<>>, <<>>),
              rows |-> tbl]
        ELSE IF d.err # ErrNil
        THEN [resp |-> IF d.err = ErrStorageProductNotFound
                       THEN Response(StatusNotFound, "product not found", <<>>,
                                     <<"Delete">>, <<fault>>)
                       ELSE Response(StatusInternalServerError, "internal error", <<>>,
                                     <<"Delete">>, <<fault>>),
              rows |-> d.rows]
        ELSE [resp |-> Response(StatusOK, "success", <<>>, <<"Delete">>, <<fault>>),
              rows |-> d.rows]

HandlerDelete(tbl, path, fault) ==
    LET lp == PathLastParam(path)
        a == Atoi(lp.param)
        d == StorageDelete(tbl, a.n, fault)
    IN  IF lp.err
        THEN [resp |-> Response(StatusBadRequest, "invalid path param", <<>>, <<>>, <<>>),
              rows |-> tbl]
        ELSE IF a.err
        THEN [resp |-> Response(StatusBadRequest, "parameter must be int", <<>>, <<>>, <<>>),
              rows |-> tbl]
        ELSE IF d.err # ErrNil
        THEN [resp |-> IF d.err = ErrStorageProductNotFound
                       THEN Response(StatusNotFound, "product not found", <<>>,
                                     <<"Delete">>, <<fault>>)
                       ELSE Response(StatusInternalServerError, "internal error", <<>>,
                                     <<"Delete">>, <<fault>>),
              rows |-> d.rows]
        ELSE [resp |-> Response(StatusOK, "success", <<>>, <<"Delete">>, <<fault>>),
              rows |-> d.rows]

(***************************************************************************)
(* Requests.                                                               *)
(***************************************************************************)
Names == {"", "a", "b"}
Types == {"t"}
Counts == {Small(5)}
Prices == {2}

\* A JSON field: omitted, or one of the values
Opt(S) == {<<>>} \cup {<<v>> : v \in S}

MalformedBody == [ok |-> FALSE, name |-> <<>>, type |-> <<>>, count |-> <<>>, price |-> <<>>]
EmptyBody == [MalformedBody EXCEPT !.ok = TRUE]

\* Bodies of Store requests: the name may be left out.
StoreBodies ==
    {MalformedBody} \cup
    [ok : {TRUE}, name : Opt(Names), type : Opt(Types) \ {<<>>},
     count : Opt(Counts) \ {<<>>}, price : Opt(Prices) \ {<<>>}]

\* Bodies of Update requests: the name and the count, each given or left out.
UpdateBodies ==
    {MalformedBody} \cup
    [ok : {TRUE}, name : Opt(Names), type : {<<>>},
     count : Opt(Counts), price : {<<>>}]

\* Requests on one product name whose other fields take their zero value, an
\* ordinary value, and for the count the first value past the int32 range; an
\* Update body gives any subset of the type, the count and the price.
ValueTypes == {"", "t"}
ValueCounts == {Small(0), Small(5), TwoTo31}
ValuePrices == {0, 2}

ValueStoreBodies ==
    [ok : {TRUE}, name : {<<"a">>}, type : Opt(ValueTypes) \ {<<>>},
     count : Opt(ValueCounts) \ {<<>>}, price : Opt(ValuePrices) \ {<<>>}]

ValueUpdateBodies ==
    [ok : {TRUE}, name : {<<>>}, type : Opt(ValueTypes),
     count : Opt(ValueCounts), price : Opt(ValuePrices)]

\* Last path segments: missing, not a number, a negative number (the id of no
\* row) and the ids the table can hold.
Paths ==
    {<<>>, <<"1", "x">>, <<"-", "1">>} \cup {<<DigitChars[i + 1]>> : i \in 1..MaxID}

\* What a handler that did not get to the body knows of it
Unread(body) == [MalformedBody EXCEPT !.ok = body.ok]

\* A request and its response. lost holds the body of a concurrent Update that
\* changed the row between this request's fetch and its write.
Observed(op, path, body, id, lost, r) ==
    [op |-> op, path |-> path, body |-> body, id |-> id, lost |-> lost,
     code |-> r.code, message |-> r.message, data |-> r.data, error |-> r.error,
     calls |-> r.calls, faults |-> r.faults]

NoResp == Observed("none", <<>>, EmptyBody, 0, <<>>, Response(0, "", <<>>, <<>>, <<>>))

Procs == {1, 2}

Idle ==
    [pc |-> "idle", path |-> <<>>, body |-> EmptyBody, id |-> 0, pr |-> ZeroFields,
     read |-> Response(0, "", <<>>, <<>>, <<>>), lost |-> <<>>]

Init ==
    /\ rows = <<>>
    /\ lastID = 0
    /\ clientFoundRows \in BOOLEAN
    /\ pend = [p \in Procs |-> Idle]
    /\ resp = NoResp

GetOneReq ==
    \E path \in Paths, fault \in BOOLEAN :
        /\ resp' = Observed("GetOne", path, EmptyBody, Atoi(path).n, <<>>,
                            HandlerGetOne(rows, path, fault))
        /\ UNCHANGED <<rows, lastID, clientFoundRows, pend>>

StoreReq(bodies) ==
    \E body \in bodies, fault \in BOOLEAN :
        LET h == HandlerStore(rows, lastID, body, fault) IN
        /\ lastID < MaxID
        /\ rows' = h.rows
        /\ lastID' = h.lastID
        /\ resp' = Observed("Store", <<>>, body, h.id, <<>>, h.resp)
        /\ UNCHANGED <<clientFoundRows, pend>>

\* A whole Update request, nothing running between its two storage calls.
UpdateReq(bodies) ==
    \E path \in Paths, f1 \in BOOLEAN :
        LET r == UpdateRead(rows, path, f1) IN
        IF r.done
        THEN \E body \in {Unread(b) : b \in bodies} :
                /\ resp' = Observed("Update", path, body, r.id, <<>>, r.resp)
                /\ UNCHANGED <<rows, lastID, clientFoundRows, pend>>
        ELSE \E body \in bodies, f2 \in BOOLEAN :
                LET w == UpdateWrite(rows, clientFoundRows, r.id, r.pr, body, f2) IN
                /\ rows' = w.rows
                /\ resp' = Observed("Update", path, body, r.id, <<>>, UpdateResponse(r, w))
                /\ UNCHANGED <<lastID, clientFoundRows, pend>>

DeleteReq ==
    \E path \in Paths, fault \in BOOLEAN :
        LET h == HandlerDelete(rows, path, fault) IN
        /\ rows' = h.rows
        /\ resp' = Observed("Delete", path, EmptyBody, Atoi(path).n, <<>>, h.resp)
        /\ UNCHANGED <<lastID, clientFoundRows, pend>>

Next == GetOneReq \/ StoreReq(StoreBodies) \/ UpdateReq(UpdateBodies) \/ DeleteReq

Spec == Init /\ [][Next]_vars

NextValues ==
    GetOneReq \/ StoreReq(ValueStoreBodies) \/ UpdateReq(ValueUpdateBodies) \/ DeleteReq

SpecValues == Init /\ [][NextValues]_vars

(***************************************************************************)
(* Two clients sending Update requests for the same product; a request's   *)
(* two storage calls are separate steps.                                   *)
(***************************************************************************)
ConcPaths == {<<"1">>}

ConcBodies ==
    {[EmptyBody EXCEPT !.name = <<"b">>], [EmptyBody EXCEPT !.count = <<Small(7)>>]}

\* The table after one Store of {"name":"a","type":"t","count":5,"price":2}
InitConc ==
    /\ rows = With(<<>>, 1, ToProductMySQL(Product(0, "a", "t", Small(5), 2)))
    /\ lastID = 1
    /\ clientFoundRows \in BOOLEAN
    /\ pend = [p \in Procs |-> Idle]
    /\ resp = NoResp

UpdateBegin(p) ==
    \E path \in ConcPaths, body \in ConcBodies, fault \in BOOLEAN :
        LET r == UpdateRead(rows, path, fault) IN
        /\ pend[p].pc = "idle"
        /\ IF r.done
           THEN /\ resp' = Observed("Update", path, Unread(body), r.id, <<>>, r.resp)
                /\ pend' = pend
           ELSE /\ resp' = NoResp
                /\ pend' = [pend EXCEPT ![p] =
                              [pc |-> "read", path |-> path, body |-> body, id |-> r.id,
                               pr |-> r.pr, read |-> r.resp, lost |-> <<>>]]
        /\ UNCHANGED <<rows, lastID, clientFoundRows>>

UpdateFinish(p) ==
    \E fault \in BOOLEAN :
        LET q == pend[p]
            w == UpdateWrite(rows, clientFoundRows, q.id, q.pr, q.body, fault)
        IN  /\ q.pc = "read"
            /\ rows' = w.rows
            /\ resp' = Observed("Update", q.path, q.body, q.id, q.lost,
                                UpdateResponse([resp |-> q.read], w))
            /\ pend' = [o \in Procs |->
                          IF o = p THEN Idle
                          ELSE IF pend[o].pc = "read" /\ pend[o].id = q.id /\ w.rows # rows
                               THEN [pend[o] EXCEPT !.lost = <<q.body>>]
                               ELSE pend[o]]
            /\ UNCHANGED <<lastID, clientFoundRows>>

NextConc == \E p \in Procs : UpdateBegin(p) \/ UpdateFinish(p)

SpecConc == InitConc /\ [][NextConc]_vars

(***************************************************************************)
(* Properties.                                                             *)
(***************************************************************************)
\* Last path segments that are missing or are no integer
BadPaths == {<<>>, <<"1", "x">>}

\* No storage call of the request met a fault
NoFault(r) == \A i \in 1..Len(r.faults) : ~r.faults[i]

\* What a stored row holds, a NULL column read as the zero value
StoredFields(r) ==
    [Name  |-> IF r.Name.Valid THEN r.Name.String ELSE "",
     Type  |-> IF r.Type.Valid THEN r.Type.String ELSE "",
     Count |-> IF r.Count.Valid
               THEN [hi |-> IF r.Count.Int32 < 0 THEN -1 ELSE 0, lo |-> r.Count.Int32]
               ELSE [hi |-> 0, lo |-> 0],
     Price |-> IF r.Price.Valid THEN r.Price.Float64 ELSE 0]

\* The fields cur with exactly the fields the body supplies replaced
PatchOver(cur, body) ==
    [Name  |-> IF Len(body.name) = 1 THEN body.name[1] ELSE cur.Name,
     Type  |-> IF Len(body.type) = 1 THEN body.type[1] ELSE cur.Type,
     Count |-> IF Len(body.count) = 1 THEN body.count[1] ELSE cur.Count,
     Price |-> IF Len(body.price) = 1 THEN body.price[1] ELSE cur.Price]

\* The fields a Store request asks for
Requested(body) == PatchOver([Name |-> "", Type |-> "", Count |-> [hi |-> 0, lo |-> 0],
                              Price |-> 0], body)

\* C1: a GetOne request with an integer id answers 200 with the stored row's
\* name, type, count and price when the row exists, and 404 when it does not.
C1_GetOneFoundOrNotFound ==
    (resp.op = "GetOne" /\ resp.path \notin BadPaths /\ NoFault(resp))
    => IF resp.id \in DOMAIN rows
       THEN resp.code = 200 /\ resp.data = <<StoredFields(rows[resp.id])>>
       ELSE resp.code = 404

\* C2: a Delete request with an integer id that has no row answers 404 and
\* leaves the table as it was.
C2_DeleteMissingIs404 ==
    [][(resp'.op = "Delete" /\ resp'.path \notin BadPaths /\ NoFault(resp')
        /\ resp'.id \notin DOMAIN rows)
       => (resp'.code = 404 /\ rows' = rows)]_vars

\* C3: an Update request on an existing product with a well-formed body and no
\* name conflict answers 200 and leaves the row equal to the prior row with
\* exactly the supplied fields replaced.
C3_UpdatePatchesRow ==
    [][(resp'.op = "Update" /\ resp'.path \notin BadPaths /\ NoFault(resp')
        /\ resp'.body.ok /\ resp'.id \in DOMAIN rows
        /\ ~\E j \in DOMAIN rows \ {resp'.id} :
              /\ Len(resp'.body.name) = 1
              /\ StoredFields(rows[j]).Name = resp'.body.name[1])
       => (/\ resp'.code = 200
           /\ resp'.id \in DOMAIN rows'
           /\ StoredFields(rows'[resp'.id])
                = PatchOver(StoredFields(rows[resp'.id]), resp'.body))]_vars

\* C4: a Store request whose name is the name of a stored product answers 400
\* and leaves the table as it was.
C4_StoreDuplicateNameIs400 ==
    [][(resp'.op = "Store" /\ resp'.body.ok /\ NoFault(resp')
        /\ \E j \in DOMAIN rows : StoredFields(rows[j]).Name = Requested(resp'.body).Name)
       => (resp'.code = 400 /\ rows' = rows)]_vars

\* C5: a Store request answered 201 carries in its data the identifier the
\* storage assigned, with the created name, type, count and price.
C5_StoreResponseHasID ==
    (resp.op = "Store" /\ resp.code = 201)
    => /\ Len(resp.data) = 1
       /\ "ID" \in DOMAIN resp.data[1]
       /\ resp.data[1].ID = resp.id
       /\ resp.data[1].Name = Requested(resp.body).Name
       /\ resp.data[1].Type = Requested(resp.body).Type
       /\ resp.data[1].Count = Requested(resp.body).Count
       /\ resp.data[1].Price = Requested(resp.body).Price

\* C6: right after a successful Store, the storage GetOne of the identifier
\* Store set on the product returns the name, type, count and price stored.
C6_StoreGetOneRoundTrip ==
    (resp.op = "Store" /\ resp.code = 201)
    => LET g == StorageGetOne(rows, resp.id, FALSE) IN
       /\ g.err = ErrNil
       /\ Fields(g.p[1]) = Requested(resp.body)

\* C7: a GetOne, Update or Delete request whose last path segment is missing
\* or is no integer is answered 400 without any storage call.
C7_BadPathIs400BeforeStorage ==
    (resp.op \in {"GetOne", "Update", "Delete"} /\ resp.path \in BadPaths)
    => (resp.code = 400 /\ resp.calls = <<>>)

\* C7 happens: a Delete naming no integer is refused while the table has rows.
C7_Witness ==
    /\ resp.op = "Delete" /\ resp.path = <<"1", "x">> /\ resp.code = 400
    /\ resp.calls = <<>> /\ DOMAIN rows # {}

\* C8 as stated: a Store or Update request with a malformed body is answered
\* 400 before any storage call.
C8_BadJSONBeforeStorage ==
    (resp.op \in {"Store", "Update"} /\ ~resp.body.ok)
    => (resp.code = 400 /\ resp.calls = <<>>)

\* C8 amended: a Store request with a malformed body is answered 400 before any
\* storage call; an Update request with an integer id and a malformed body has
\* called storage GetOne and nothing else, and is answered 400 exactly when
\* that GetOne found the product.
C8_BadJSONAfterFetch ==
    (~resp.body.ok)
    => /\ resp.op = "Store" => (resp.code = 400 /\ resp.calls = <<>>)
       /\ (resp.op = "Update" /\ resp.path \notin BadPaths)
          => /\ resp.calls = <<"GetOne">>
             /\ resp.code = 400 <=> (resp.id \in DOMAIN rows /\ NoFault(resp))

\* C8 happens: an Update with a malformed body is refused after its fetch.
C8_Witness ==
    /\ resp.op = "Update" /\ ~resp.body.ok /\ resp.code = 400
    /\ resp.calls = <<"GetOne">> /\ resp.id \in DOMAIN rows

\* C9: an Update request whose patched name is the name of another stored
\* product answers 400 and leaves every row as it was.
C9_UpdateDuplicateNameIs400 ==
    [][(resp'.op = "Update" /\ resp'.path \notin BadPaths /\ NoFault(resp')
        /\ resp'.body.ok /\ resp'.id \in DOMAIN rows
        /\ \E j \in DOMAIN rows \ {resp'.id} :
              StoredFields(rows[j]).Name
                = PatchOver(StoredFields(rows[resp'.id]), resp'.body).Name)
       => (resp'.code = 400 /\ rows' = rows)]_vars

\* C10: the write of an Update request answered 200 leaves the row at the
\* request's own fetched record patched with its body, whatever was written
\* to the row since the fetch.
C10_WriteFromOwnFetch ==
    [][\A p \in Procs :
         (pend[p].pc = "read" /\ pend'[p].pc = "idle" /\ resp'.code = 200)
         => (/\ pend[p].id \in DOMAIN rows'
             /\ StoredFields(rows'[pend[p].id]) = PatchOver(pend[p].pr, pend[p].body))]_vars

\* C10 happens: both requests were answered 200, one set the count and the
\* other, which had fetched before that write, set the name; the count is lost.
C10_LostUpdate ==
    /\ resp.op = "Update" /\ resp.code = 200
    /\ resp.body = [EmptyBody EXCEPT !.name = <<"b">>]
    /\ resp.lost = <<[EmptyBody EXCEPT !.count = <<Small(7)>>]>>
    /\ StoredFields(rows[resp.id]).Name = "b"
    /\ StoredFields(rows[resp.id]).Count # Small(7)

====
